---- MODULE Spec2Model ----
(***************************************************************************)
(* A model of terminal_wrapped (src/src/terminal_wrapped/main.py): the     *)
(* history parser, the alias table, the complexity scorer, the aggregate   *)
(* views, the report sections that consume them, and main with the paged   *)
(* report of generate_wrapped_report.                                      *)
(*                                                                         *)
(* A Python str is a sequence of one-character strings, so that split,     *)
(* strip, startswith, replace and int are computed character by character  *)
(* as the interpreter computes them.                                       *)
(***************************************************************************)
EXTENDS Integers, Sequences, FiniteSets, TLC

VARIABLES
    \* parse_zsh_history
    lines,      \* the history file, a sequence of lines
    f_pos,      \* index of the next line the for loop reads
    commands,   \* the list being built: <<command, timestamp>> pairs
    src,        \* history: for each entry of commands, the index of its line
    pstatus,    \* "reading", "returned" or "raised"
    perr,       \* the exception that left parse_zsh_history, or "none"
    \* calculate_command_complexity, get_special_chars
    s_given,    \* the command string first given
    s_command,  \* the command string passed: s_given, or a reordering of it
    s_score,    \* what calculate_command_complexity returned, -1 before a call
    s_special,  \* what get_special_chars returned, and whether it was called
    \* the aggregate views and the report sections
    a_commands, \* the parsed entries: <<command, timestamp>> pairs
    a_aliases,  \* the alias dict: <<name, expansion>> pairs in insertion order
    a_call,     \* the function called on them and its n, name "none" before
    a_result,   \* what the call raised (fault) or returned or displayed (value)
    \* parse_aliases
    z_exists,   \* whether the .zshrc file exists
    z_lines,    \* its lines
    z_pos,      \* index of the next line the for loop reads
    z_aliases,  \* the dict being built: <<name, command>> pairs
    z_status,   \* "reading" or "returned"
    \* main and generate_wrapped_report
    m_shell,         \* the last component of $SHELL
    m_has_history,   \* whether the history file of that shell exists
    m_pc,            \* where main is: "main", "parse_zsh_history",
                     \* "parse_aliases", "render", "input", and at its end
                     \* "quit", "summary" or "error"
    current_section, \* the index into sections
    m_command,       \* what input().lower() last returned, "none" before
    m_before,        \* current_section when that input was read, -1 before
    m_screen,        \* what was printed since the screen was last cleared
    m_rendered,      \* history: the indices sections[...] was called with
    m_errors         \* history: the exceptions main printed as "Error: ..."

parseVars == <<lines, f_pos, commands, src, pstatus, perr>>

scoreVars == <<s_given, s_command, s_score, s_special>>

aggVars == <<a_commands, a_aliases, a_call, a_result>>

aliasVars == <<z_exists, z_lines, z_pos, z_aliases, z_status>>

mainVars ==
    <<m_shell, m_has_history, m_pc, current_section, m_command, m_before,
      m_screen, m_rendered, m_errors>>

vars == <<parseVars, scoreVars, aggVars, aliasVars, mainVars>>

\* The state of each part while another part is the one exercised
ParseIdle ==
    /\ lines = <<>>
    /\ f_pos = 1
    /\ commands = <<>>
    /\ src = <<>>
    /\ pstatus = "idle"
    /\ perr = "none"

ScoreIdle ==
    /\ s_given = <<>>
    /\ s_command = <<>>
    /\ s_score = -1
    /\ s_special = [called |-> FALSE, value |-> <<>>]

AggIdle ==
    /\ a_commands = <<>>
    /\ a_aliases = <<>>
    /\ a_call = [name |-> "idle", n |-> 0]
    /\ a_result = [fault |-> "none", value |-> <<>>]

AliasIdle ==
    /\ z_exists = FALSE
    /\ z_lines = <<>>
    /\ z_pos = 1
    /\ z_aliases = <<>>
    /\ z_status = "idle"

MainIdle ==
    /\ m_shell = "zsh"
    /\ m_has_history = FALSE
    /\ m_pc = "idle"
    /\ current_section = 0
    /\ m_command = "none"
    /\ m_before = -1
    /\ m_screen = <<>>
    /\ m_rendered = {}
    /\ m_errors = <<>>

(***************************************************************************)
(* Characters                                                              *)
(***************************************************************************)

Digits == {"0", "1", "2", "3", "4", "5", "6", "7", "8", "9"}

Letters ==
    {"a", "b", "c", "d", "e", "f", "g", "h", "i", "j", "k", "l", "m",
     "n", "o", "p", "q", "r", "s", "t", "u", "v", "w", "x", "y", "z",
     "A", "B", "C", "D", "E", "F", "G", "H", "I", "J", "K", "L", "M",
     "N", "O", "P", "Q", "R", "S", "T", "U", "V", "W", "X", "Y", "Z"}

\* str.isspace / the characters str.strip() and str.split() treat as blank
Whitespace == {" ", "\t", "\n", "\r", "\f"}

isspace(ch) == ch \in Whitespace

isalnum(ch) == ch \in Digits \cup Letters

\* The grave accent (code point 96), which a TLA+ string cannot hold, is
\* written as this two-letter string; every other character is itself.
Backtick == "bq"

\* The printable ASCII characters in code point order, "!" (33) first.
AsciiOrder ==
    <<"!", "\"", "#", "$", "%", "&", "'", "(", ")", "*", "+", ",", "-", ".", "/",
      "0", "1", "2", "3", "4", "5", "6", "7", "8", "9",
      ":", ";", "<", "=", ">", "?", "@",
      "A", "B", "C", "D", "E", "F", "G", "H", "I", "J", "K", "L", "M",
      "N", "O", "P", "Q", "R", "S", "T", "U", "V", "W", "X", "Y", "Z",
      "[", "\\", "]", "^", "_", Backtick,
      "a", "b", "c", "d", "e", "f", "g", "h", "i", "j", "k", "l", "m",
      "n", "o", "p", "q", "r", "s", "t", "u", "v", "w", "x", "y", "z",
      "{", "|", "}", "~">>

\* ord(ch): the code point, by which sorted() orders characters
ord(ch) ==
    IF ch = " " THEN 32
    ELSE IF ch = "\t" THEN 9
    ELSE IF ch = "\n" THEN 10
    ELSE IF ch = "\f" THEN 12
    ELSE IF ch = "\r" THEN 13
    ELSE 32 + (CHOOSE i \in DOMAIN AsciiOrder : AsciiOrder[i] = ch)

(***************************************************************************)
(* str methods                                                             *)
(***************************************************************************)

\* s.startswith(prefix)
startswith(s, prefix) ==
    /\ Len(s) >= Len(prefix)
    /\ SubSeq(s, 1, Len(prefix)) = prefix

RECURSIVE lstrip(_, _)
lstrip(s, chars) ==
    IF s # <<>> /\ Head(s) \in chars THEN lstrip(Tail(s), chars) ELSE s

RECURSIVE rstrip(_, _)
rstrip(s, chars) ==
    IF s # <<>> /\ s[Len(s)] \in chars
    THEN rstrip(SubSeq(s, 1, Len(s) - 1), chars)
    ELSE s

\* s.strip(chars): every leading and trailing character in chars is removed
strip_chars(s, chars) == rstrip(lstrip(s, chars), chars)

\* s.strip()
strip(s) == strip_chars(s, Whitespace)

\* s.find(sub): the first index (1-based) at which sub occurs in s, 0 if none
find(s, sub) ==
    LET hits == {i \in 1..(Len(s) - Len(sub) + 1) :
                    SubSeq(s, i, i + Len(sub) - 1) = sub}
    IN IF hits = {} THEN 0
       ELSE CHOOSE i \in hits : \A j \in hits : i <= j

\* s.split(sep, maxsplit) for a non-empty sep; maxsplit = -1 splits everywhere
RECURSIVE split_sep(_, _, _)
split_sep(s, sep, maxsplit) ==
    LET i == find(s, sep)
    IN IF maxsplit = 0 \/ i = 0 THEN <<s>>
       ELSE <<SubSeq(s, 1, i - 1)>>
            \o split_sep(SubSeq(s, i + Len(sep), Len(s)), sep,
                         IF maxsplit < 0 THEN maxsplit ELSE maxsplit - 1)

\* s.split(): the maximal runs of non-blank characters
RECURSIVE split(_)
split(s) ==
    LET t == lstrip(s, Whitespace)
        blanks == {i \in DOMAIN t : isspace(t[i])}
        stop == IF blanks = {} THEN Len(t) + 1
                ELSE CHOOSE i \in blanks : \A j \in blanks : i <= j
    IN IF t = <<>> THEN <<>>
       ELSE <<SubSeq(t, 1, stop - 1)>> \o split(SubSeq(t, stop, Len(t)))

\* s.replace(old, new, 1) for a non-empty old: the first occurrence only
replace_first(s, old, new) ==
    LET i == find(s, old)
    IN IF i = 0 THEN s
       ELSE SubSeq(s, 1, i - 1) \o new \o SubSeq(s, i + Len(old), Len(s))

\* s.replace(old, new) for a non-empty old: every occurrence, left to right
RECURSIVE replace(_, _, _)
replace(s, old, new) ==
    LET i == find(s, old)
    IN IF i = 0 THEN s
       ELSE SubSeq(s, 1, i - 1) \o new
            \o replace(SubSeq(s, i + Len(old), Len(s)), old, new)

(***************************************************************************)
(* int(str) and datetime.fromtimestamp                                     *)
(***************************************************************************)

DigitVal(ch) == (CHOOSE i \in 1..10 : AsciiOrder[15 + i] = ch) - 1

\* Digit groups separated by single underscores, as int() accepts them.
WellGrouped(body) ==
    /\ body # <<>>
    /\ \A i \in DOMAIN body : body[i] \in Digits \cup {"_"}
    /\ body[1] # "_"
    /\ body[Len(body)] # "_"
    /\ \A i \in 1..(Len(body) - 1) : ~(body[i] = "_" /\ body[i + 1] = "_")

RECURSIVE DropLeadingZeros(_)
DropLeadingZeros(d) ==
    IF Len(d) > 1 /\ Head(d) = "0" THEN DropLeadingZeros(Tail(d)) ELSE d

\* int(s) in base 10. ok = FALSE is ValueError; otherwise the value is the
\* sign and the decimal digits without leading zeros (Python's int is
\* unbounded, so the digits are kept rather than a machine integer).
int(s) ==
    LET t == strip(s)
        signed == t # <<>> /\ Head(t) \in {"+", "-"}
        body == IF signed THEN Tail(t) ELSE t
        digits == DropLeadingZeros(SelectSeq(body, LAMBDA ch : ch # "_"))
    IN IF WellGrouped(body)
       THEN [ok |-> TRUE,
             neg |-> signed /\ Head(t) = "-" /\ digits # <<"0">>,
             digits |-> digits]
       ELSE [ok |-> FALSE, neg |-> FALSE, digits |-> <<>>]

\* a <= b for two digit strings without leading zeros
RECURSIVE LexLE(_, _)
LexLE(a, b) ==
    IF a = <<>> THEN TRUE
    ELSE IF Head(a) # Head(b) THEN DigitVal(Head(a)) < DigitVal(Head(b))
    ELSE LexLE(Tail(a), Tail(b))

DigitsLE(a, b) == Len(a) < Len(b) \/ (Len(a) = Len(b) /\ LexLE(a, b))

RECURSIVE DigitsToInt(_)
DigitsToInt(d) ==
    IF d = <<>> THEN 0
    ELSE 10 * DigitsToInt(SubSeq(d, 1, Len(d) - 1)) + DigitVal(d[Len(d)])

\* The limits of datetime.fromtimestamp on a 64-bit time_t, local zone UTC.
\* 253402300799 is 9999-12-31 23:59:59, the last instant of datetime.max's year
MaxDatetime == <<"2","5","3","4","0","2","3","0","0","7","9","9">>
\* -62135510400: a day after 0001-01-01, below which the fold probe leaves year 1
MinDatetime == <<"6","2","1","3","5","5","1","0","4","0","0">>
\* 67768036191676799: the last time_t whose year fits localtime's int tm_year
MaxLocaltime ==
    <<"6","7","7","6","8","0","3","6","1","9","1","6","7","6","7","9","9">>
\* -67768040609740800: the first such time_t
MinLocaltime ==
    <<"6","7","7","6","8","0","4","0","6","0","9","7","4","0","8","0","0">>
\* 2^63 - 1
MaxTimeT ==
    <<"9","2","2","3","3","7","2","0","3","6","8","5","4","7","7","5","8","0","7">>
\* -2^63
MinTimeT ==
    <<"9","2","2","3","3","7","2","0","3","6","8","5","4","7","7","5","8","0","8">>

\* datetime.fromtimestamp(v): the exception it raises, or "none"
fromtimestamp_error(v) ==
    IF ~DigitsLE(v.digits, IF v.neg THEN MinTimeT ELSE MaxTimeT)
    THEN "OverflowError"
    ELSE IF ~DigitsLE(v.digits, IF v.neg THEN MinLocaltime ELSE MaxLocaltime)
    THEN "OSError"
    ELSE IF ~DigitsLE(v.digits, IF v.neg THEN MinDatetime ELSE MaxDatetime)
    THEN "ValueError"
    ELSE "none"

\* datetime.fromtimestamp(v) when it raises nothing: the instant, in seconds
\* since the epoch
fromtimestamp(v) ==
    IF v.neg THEN 0 - DigitsToInt(v.digits) ELSE DigitsToInt(v.digits)

\* datetime.hour of an instant, local zone UTC
hour(ts) == (ts \div 3600) % 24

\* All sequences over S of length at most n
SeqUpTo(S, n) == UNION {[1..k -> S] : k \in 0..n}

(***************************************************************************)
(* calculate_command_complexity and get_special_chars                      *)
(***************************************************************************)

\* set("|&;()<>[]{}$\\'\"`!#*?")
special_chars ==
    {"|", "&", ";", "(", ")", "<", ">", "[", "]", "{", "}", "$", "\\", "'",
     "\"", Backtick, "!", "#", "*", "?"}

\* sum(1 for char in command if char in special_chars), over distinct chars
ComplexityMutant(command) ==
    Cardinality({command[i] : i \in DOMAIN command} \cap special_chars)

\* sum(1 for char in command if char in special_chars)
RECURSIVE calculate_command_complexity(_)
calculate_command_complexity(command) ==
    IF command = <<>> THEN 0
    ELSE (IF Head(command) \in special_chars THEN 1 ELSE 0)
         + calculate_command_complexity(Tail(command))

\* sorted(chars) of a list of characters: ascending code points
RECURSIVE sorted_chars(_)
sorted_chars(chars) ==
    IF chars = <<>> THEN <<>>
    ELSE LET least == CHOOSE i \in DOMAIN chars :
                        \A j \in DOMAIN chars : ord(chars[i]) <= ord(chars[j])
         IN <<chars[least]>>
            \o sorted_chars(SubSeq(chars, 1, least - 1)
                            \o SubSeq(chars, least + 1, Len(chars)))

\* The generator of get_special_chars: the characters kept, in order
special_candidates(command) ==
    SelectSeq(command, LAMBDA ch : ~isalnum(ch) /\ ~isspace(ch))

\* set(...): one of each, in the order of first occurrence
RECURSIVE distinct(_)
distinct(chars) ==
    IF chars = <<>> THEN <<>>
    ELSE LET rest == distinct(SubSeq(chars, 1, Len(chars) - 1))
             last == chars[Len(chars)]
         IN IF \E i \in DOMAIN rest : rest[i] = last THEN rest
            ELSE Append(rest, last)

\* get_special_chars without the set(): every occurrence is kept
SpecialCharsMutant(command) == sorted_chars(special_candidates(command))

\* "".join(sorted(set(char for char in command
\*                    if not char.isalnum() and not char.isspace())))
get_special_chars(command) == sorted_chars(distinct(special_candidates(command)))

\* The characters command strings are drawn from: a letter, a digit, a
\* blank, scoring punctuation and punctuation that does not score.
CommandAlphabet == {"a", "1", " ", "|", "-", "\"", ";"}

MaxCommandLen == 3

InitScore ==
    /\ s_given \in SeqUpTo(CommandAlphabet, MaxCommandLen)
    /\ s_command = s_given
    /\ s_score = -1
    /\ s_special = [called |-> FALSE, value |-> <<>>]

\* The caller passes the same characters in another order: two neighbours swap
reorder_command ==
    /\ \E i \in 1..(Len(s_command) - 1) :
        /\ s_command[i] # s_command[i + 1]
        /\ s_command' = [s_command EXCEPT ![i] = s_command[i + 1],
                                          ![i + 1] = s_command[i]]
    /\ s_score' = -1
    /\ s_special' = [called |-> FALSE, value |-> <<>>]
    /\ UNCHANGED s_given

call_calculate_command_complexity ==
    /\ s_score' = calculate_command_complexity(s_command)
    /\ UNCHANGED <<s_given, s_command, s_special>>

call_get_special_chars ==
    /\ s_special' = [called |-> TRUE, value |-> get_special_chars(s_command)]
    /\ UNCHANGED <<s_given, s_command, s_score>>

NextScore ==
    \/ reorder_command /\ UNCHANGED <<parseVars, aggVars, aliasVars, mainVars>>
    \/ call_calculate_command_complexity /\ UNCHANGED <<parseVars, aggVars, aliasVars, mainVars>>
    \/ call_get_special_chars /\ UNCHANGED <<parseVars, aggVars, aliasVars, mainVars>>

InitScorer == InitScore /\ ParseIdle /\ AggIdle /\ AliasIdle /\ MainIdle

SpecScore == InitScorer /\ [][NextScore]_vars

(***************************************************************************)
(* parse_zsh_history                                                       *)
(***************************************************************************)

\* line.split(":")[1].strip(); <<>> stands for the IndexError of a missing part
timestamp_str(line) ==
    LET parts == split_sep(line, <<":">>, -1)
    IN IF Len(parts) < 2 THEN <<>> ELSE strip(parts[2])

\* line.split(";", 1): the line cut at its first ";" only
SemicolonMutant(line) == split_sep(line, <<";">>, -1)

semicolon_parts(line) == split_sep(line, <<";">>, 1)

\* line.split(";", 1)[1].strip(), taken when the split has a second part
command_of(line) == strip(semicolon_parts(line)[2])

\* The try block on one line: "entry" appends, "skip" is the line passed over
\* (no ": " prefix, or IndexError or ValueError caught), "raise" is an
\* exception the except clause does not name, which leaves the function.
parse_line(line) ==
    LET skip == [kind |-> "skip", error |-> "none", entry |-> <<>>]
    IN IF ~startswith(line, <<":", " ">>) THEN skip
       ELSE IF Len(split_sep(line, <<":">>, -1)) < 2 THEN skip
       ELSE IF Len(semicolon_parts(line)) < 2 THEN skip
       ELSE LET v == int(timestamp_str(line))
                e == fromtimestamp_error(v)
            IN IF ~v.ok THEN skip
               ELSE IF e = "ValueError" THEN skip
               ELSE IF e # "none"
               THEN [kind |-> "raise", error |-> e, entry |-> <<>>]
               ELSE [kind |-> "entry", error |-> "none",
                     entry |-> <<command_of(line), fromtimestamp(v)>>]

\* The lines a history file is drawn from.
LinePool ==
    { \* ": 1700000000:0;ls"
      <<":", " ", "1", "7", "0", "0", "0", "0", "0", "0", "0", "0", ":", "0",
        ";", "l", "s", "\n">>,
      \* ": 1700003600:0;a;b", a ";" in the command text
      <<":", " ", "1", "7", "0", "0", "0", "0", "3", "6", "0", "0", ":", "0",
        ";", "a", ";", "b", "\n">>,
      \* ": 50400:0; ls ", blanks around the command text
      <<":", " ", "5", "0", "4", "0", "0", ":", "0", ";", " ", "l", "s", " ", "\n">>,
      \* "ls -la", no extended-history prefix
      <<"l", "s", " ", "-", "l", "a", "\n">>,
      \* ": x:0;ls", the epoch is no integer
      <<":", " ", "x", ":", "0", ";", "l", "s", "\n">>,
      \* ": 50400:0", no ";"
      <<":", " ", "5", "0", "4", "0", "0", ":", "0", "\n">>,
      \* ": 9223372036854775808:0;ls", 2^63
      <<":", " ", "9", "2", "2", "3", "3", "7", "2", "0", "3", "6", "8", "5",
        "4", "7", "7", "5", "8", "0", "8", ":", "0", ";", "l", "s", "\n">>,
      \* ": 1000000000000:0;ls", year 33658
      <<":", " ", "1", "0", "0", "0", "0", "0", "0", "0", "0", "0", "0", "0",
        "0", ":", "0", ";", "l", "s", "\n">>,
      \* ": 99999999999999999:0;ls", beyond localtime
      <<":", " ", "9", "9", "9", "9", "9", "9", "9", "9", "9", "9", "9", "9",
        "9", "9", "9", "9", "9", ":", "0", ";", "l", "s", "\n">>,
      \* ": 007:0;", an empty command
      <<":", " ", "0", "0", "7", ":", "0", ";", "\n">>,
      \* ":7:0;ls", ":" without the blank
      <<":", "7", ":", "0", ";", "l", "s", "\n">>,
      \* ": -1_0:0;cd", a last line without its newline
      <<":", " ", "-", "1", "_", "0", ":", "0", ";", "c", "d">> }

MaxLines == 3

\* parse_zsh_history(history_file) is entered: commands = []
InitParse ==
    /\ lines \in SeqUpTo(LinePool, MaxLines)
    /\ f_pos = 1
    /\ commands = <<>>
    /\ src = <<>>
    /\ pstatus = "reading"
    /\ perr = "none"

\* One pass of "for line in f"
parse_zsh_history_line ==
    /\ pstatus = "reading"
    /\ f_pos <= Len(lines)
    /\ LET r == parse_line(lines[f_pos])
       IN /\ commands' = IF r.kind = "entry" THEN Append(commands, r.entry)
                         ELSE commands
          /\ src' = IF r.kind = "entry" THEN Append(src, f_pos) ELSE src
          /\ pstatus' = IF r.kind = "raise" THEN "raised" ELSE "reading"
          /\ perr' = r.error
    /\ f_pos' = f_pos + 1
    /\ UNCHANGED lines

\* The file is exhausted: return commands
parse_zsh_history_return ==
    /\ pstatus = "reading"
    /\ f_pos > Len(lines)
    /\ pstatus' = "returned"
    /\ UNCHANGED <<lines, f_pos, commands, src, perr>>

NextParse ==
    \/ parse_zsh_history_line /\ UNCHANGED <<scoreVars, aggVars, aliasVars, mainVars>>
    \/ parse_zsh_history_return /\ UNCHANGED <<scoreVars, aggVars, aliasVars, mainVars>>

InitParser == InitParse /\ ScoreIdle /\ AggIdle /\ AliasIdle /\ MainIdle

SpecParse == InitParser /\ [][NextParse]_vars

(***************************************************************************)
(* Claims about parse_zsh_history, under SpecParse                         *)
(***************************************************************************)

\* The index of the first occurrence of ch in s at or after from, 0 if none
FirstAt(s, ch, from) ==
    LET hits == {i \in from..Len(s) : s[i] = ch}
    IN IF hits = {} THEN 0 ELSE CHOOSE i \in hits : \A j \in hits : i <= j

\* <epoch> of ": <epoch>:<duration>;<text>": what lies between the first ":"
\* and the one after it (or the end of the line)
EpochField(line) ==
    LET a == FirstAt(line, ":", 1)
        b == FirstAt(line, ":", a + 1)
    IN IF a = 0 THEN <<>>
       ELSE SubSeq(line, a + 1, IF b = 0 THEN Len(line) ELSE b - 1)

\* <text>: everything after the first ";" of the line
TextField(line) == SubSeq(line, FirstAt(line, ";", 1) + 1, Len(line))

\* s without its leading and trailing blanks, by position
Trimmed(s) ==
    LET solid == {i \in DOMAIN s : s[i] \notin Whitespace}
    IN IF solid = {} THEN <<>>
       ELSE SubSeq(s, CHOOSE i \in solid : \A j \in solid : i <= j,
                      CHOOSE i \in solid : \A j \in solid : i >= j)

\* s without the newline that ends a line read from a file
WithoutNewline(s) ==
    IF s # <<>> /\ s[Len(s)] = "\n" THEN SubSeq(s, 1, Len(s) - 1) ELSE s

RECURSIVE Pow10(_)
Pow10(k) == IF k = 0 THEN 1 ELSE 10 * Pow10(k - 1)

RECURSIVE PlaceSum(_, _)
PlaceSum(d, k) ==
    IF k > Len(d) THEN 0
    ELSE DigitVal(d[k]) * Pow10(Len(d) - k) + PlaceSum(d, k + 1)

\* The instant <epoch> denotes: its decimal value, in seconds since the epoch
EpochInstant(line) ==
    LET t == Trimmed(EpochField(line))
        d == SelectSeq(t, LAMBDA ch : ch \in Digits)
    IN IF t # <<>> /\ t[1] = "-" THEN 0 - PlaceSum(d, 1) ELSE PlaceSum(d, 1)

\* A line of the shape the claim calls an entry: ": " first, an integer
\* epoch, a ";"
ShapedLine(line) ==
    /\ Len(line) >= 2
    /\ line[1] = ":"
    /\ line[2] = " "
    /\ int(EpochField(line)).ok
    /\ FirstAt(line, ";", 1) # 0

\* C3 (as claimed): parsing never aborts; a line that does not start with
\* ": ", whose epoch is no integer or that has no ";" gives no entry, every
\* other line gives exactly one, and the entries keep the order of their lines.
C3_ParsingTotalAndOrdered ==
    /\ pstatus # "raised"
    /\ pstatus = "returned" =>
        /\ {src[i] : i \in DOMAIN src}
              = {k \in DOMAIN lines : ShapedLine(lines[k])}
        /\ \A i, j \in DOMAIN src : i < j => src[i] < src[j]

\* C4 (as claimed): the command of a parsed entry is the raw text after the
\* first ";" of its line, unmodified, and its timestamp is the epoch's instant.
C4_CommandIsRawText ==
    \A i \in DOMAIN commands :
        /\ commands[i][1] = WithoutNewline(TextField(lines[src[i]]))
        /\ commands[i][2] = EpochInstant(lines[src[i]])

\* C4 (amended): the command of a parsed entry is the text after the first
\* ";" of its line with leading and trailing whitespace removed (a ";" inside
\* the text is kept), and its timestamp is the epoch's instant.
C4_CommandIsTrimmedText ==
    \A i \in DOMAIN commands :
        /\ commands[i][1] = Trimmed(TextField(lines[src[i]]))
        /\ commands[i][2] = EpochInstant(lines[src[i]])

\* C4 witness: a file was parsed to the end, one entry's text holds a ";"
\* and another's is surrounded by blanks.
C4_Witness ==
    /\ pstatus = "returned"
    /\ \E i, j \in DOMAIN commands :
        /\ commands[i][1] = <<"a", ";", "b">>
        /\ TextField(lines[src[j]]) = <<" ", "l", "s", " ", "\n">>
        /\ commands[j] = <<(<<"l", "s">>), 50400>>

(***************************************************************************)
(* Claims about the complexity scorer, under SpecScore                     *)
(***************************************************************************)

\* The distinguished characters as the design lists them:
\* | & ; ( ) < > [ ] { } $ \ ' " ` ! # * ?
Distinguished ==
    {"|", "&", ";", "(", ")", "<", ">", "[", "]", "{", "}"}
    \cup {"$", "\\", "'", "\"", Backtick} \cup {"!", "#", "*", "?"}

\* The number of positions of s that hold a character of S
Occurrences(s, S) == Cardinality({i \in DOMAIN s : s[i] \in S})

\* A score, once returned, counts the occurrences of distinguished characters
\* in the string first given, of which the string scored is a reordering.
ScoreCountsOccurrences ==
    s_score # -1 => s_score = Occurrences(s_given, Distinguished)

\* C5 (as claimed): the score is the number of occurrences of characters of
\* the fixed 18-character distinguished set, the same for every reordering.
C5_ScoreOver18Chars ==
    s_score # -1 =>
        /\ special_chars = Distinguished
        /\ Cardinality(special_chars) = 18
        /\ ScoreCountsOccurrences

\* C5 (amended): the score is the number of occurrences of characters of the
\* fixed 20-character distinguished set, the same for every reordering.
C5_ScoreOver20Chars ==
    s_score # -1 =>
        /\ special_chars = Distinguished
        /\ Cardinality(special_chars) = 20
        /\ ScoreCountsOccurrences

\* C5 witness: a string with a repeated distinguished character was
\* reordered and then scored 2.
C5_Witness ==
    /\ s_command # s_given
    /\ Occurrences(s_given, {"|"}) = 2
    /\ Occurrences(s_given, {"-"}) = 1
    /\ s_score = 2

\* C6: specialChars holds each non-alphanumeric, non-blank character of the
\* command exactly once and nothing else, in ascending character order, and
\* is no longer than the command.
C6_SpecialCharsDistinctSorted ==
    s_special.called =>
        LET r == s_special.value
            punct == {s_command[i] : i \in DOMAIN s_command}
                        \ (Digits \cup Letters \cup Whitespace)
        IN /\ \A ch \in punct : Occurrences(r, {ch}) = 1
           /\ \A i \in DOMAIN r : r[i] \in punct
           /\ \A i \in 1..(Len(r) - 1) : ord(r[i]) < ord(r[i + 1])
           /\ Len(r) <= Len(s_command)

\* C6 witness: the command "|-|", with a repeated "|" before and after a "-",
\* gave "-|".
C6_Witness ==
    /\ s_special.called
    /\ s_command = <<"|", "-", "|">>
    /\ s_special.value = <<"-", "|">>

(***************************************************************************)
(* dict, Counter and sorted: a dict is its <<key, value>> pairs in         *)
(* insertion order, which is the order Python iterates them in             *)
(***************************************************************************)

dict_has(d, k) == \E i \in DOMAIN d : d[i][1] = k

dict_get(d, k) == d[CHOOSE i \in DOMAIN d : d[i][1] = k][2]

\* d[k] = 1 where d[k] += 1 is meant: a key seen again counts as one
IncrementMutant(d, k) == IF dict_has(d, k) THEN d ELSE Append(d, <<k, 1>>)

\* d[k] += 1 on a defaultdict(int) or a Counter: a new key goes last
dict_increment(d, k) ==
    IF dict_has(d, k)
    THEN [i \in DOMAIN d |-> IF d[i][1] = k THEN <<k, d[i][2] + 1>> ELSE d[i]]
    ELSE Append(d, <<k, 1>>)

\* Counter(keys), and the defaultdict(int) loops that count the same way
RECURSIVE Counter(_)
Counter(keys) ==
    IF keys = <<>> THEN <<>>
    ELSE dict_increment(Counter(SubSeq(keys, 1, Len(keys) - 1)), keys[Len(keys)])

Without(items, i) == SubSeq(items, 1, i - 1) \o SubSeq(items, i + 1, Len(items))

\* sorted(items)[::-1] on the count: descending, but equal counts reversed
RECURSIVE SortedMutant(_)
SortedMutant(items) ==
    IF items = <<>> THEN <<>>
    ELSE LET top == CHOOSE i \in DOMAIN items :
                        /\ \A j \in DOMAIN items : items[j][2] <= items[i][2]
                        /\ \A j \in DOMAIN items :
                               j > i => items[j][2] < items[i][2]
         IN <<items[top]>> \o SortedMutant(Without(items, top))

\* sorted(items, key=lambda x: x[1], reverse=True): descending in the second
\* component, stable (equal keys keep their order); heapq.nlargest, which
\* Counter.most_common(n) uses, orders the same way
RECURSIVE sorted_desc(_)
sorted_desc(items) ==
    IF items = <<>> THEN <<>>
    ELSE LET top == CHOOSE i \in DOMAIN items :
                        /\ \A j \in DOMAIN items : items[j][2] <= items[i][2]
                        /\ \A j \in DOMAIN items :
                               j < i => items[j][2] < items[i][2]
         IN <<items[top]>> \o sorted_desc(Without(items, top))

\* sorted(d.items()) of a dict with distinct integer keys: ascending keys
RECURSIVE sorted_items(_)
sorted_items(items) ==
    IF items = <<>> THEN <<>>
    ELSE LET low == CHOOSE i \in DOMAIN items :
                        \A j \in DOMAIN items : items[i][1] <= items[j][1]
         IN <<items[low]>> \o sorted_items(Without(items, low))

\* items[:n] for n >= 0
first_n(items, n) == SubSeq(items, 1, IF n < Len(items) THEN n ELSE Len(items))

\* Counter.most_common(n) for n >= 0
most_common(counter, n) == first_n(sorted_desc(counter), n)

\* max(values) of a non-empty sequence of integers
max(values) == CHOOSE v \in {values[i] : i \in DOMAIN values} :
                   \A i \in DOMAIN values : values[i] <= v

(***************************************************************************)
(* The aggregate views                                                     *)
(***************************************************************************)

\* cmd.split()[0] if cmd.split() else ""
base_cmd_or_empty(cmd) == IF split(cmd) = <<>> THEN <<>> ELSE split(cmd)[1]

\* get_top_commands(commands, n)
get_top_commands(cmds, n) ==
    most_common(Counter([i \in DOMAIN cmds |-> base_cmd_or_empty(cmds[i][1])]), n)

\* get_top_full_commands(commands, n)
get_top_full_commands(cmds, n) ==
    most_common(Counter([i \in DOMAIN cmds |-> cmds[i][1]]), n)

\* n of get_most_complex_commands when the caller gives none
DefaultComplexN == 5

\* get_most_complex_commands(commands, n)
get_most_complex_commands(cmds, n) ==
    first_n(sorted_desc([i \in DOMAIN cmds |->
                            <<cmds[i][1],
                              calculate_command_complexity(cmds[i][1]),
                              get_special_chars(cmds[i][1])>>]), n)

\* get_hourly_distribution(commands): the hours seen, ascending, each with
\* its count
get_hourly_distribution(cmds) ==
    sorted_items(Counter([i \in DOMAIN cmds |-> hour(cmds[i][2])]))

\* Some cmd.split()[0] of the loop raises IndexError: a command has no token
some_tokenless(cmds) == \E i \in DOMAIN cmds : split(cmds[i][1]) = <<>>

Raised(error) == [fault |-> error, value |-> <<>>]

Returned(value) == [fault |-> "none", value |-> value]

\* analyze_alias_usage(aliases, commands)
analyze_alias_usage(aliases, cmds) ==
    IF some_tokenless(cmds) THEN Raised("IndexError")
    ELSE Returned(Counter(SelectSeq([i \in DOMAIN cmds |-> split(cmds[i][1])[1]],
                                    LAMBDA b : dict_has(aliases, b))))

(***************************************************************************)
(* The report sections: what each displays, or the exception it raises     *)
(***************************************************************************)

\* The rows a section shows: sorted(...)[:10]
TopRows == 10

\* print_base_commands: the rows displayed (none: "No raw commands found")
print_base_commands(cmds, aliases) ==
    IF some_tokenless(cmds) THEN Raised("IndexError")
    ELSE LET base_counts ==
                 Counter(SelectSeq([i \in DOMAIN cmds |-> split(cmds[i][1])[1]],
                                   LAMBDA b : ~dict_has(aliases, b)))
         IN Returned(first_n(sorted_desc(base_counts), TopRows))

\* The key print_full_commands counts a command under
expanded(cmd, aliases) ==
    LET base_cmd == split(cmd)[1]
    IN IF dict_has(aliases, base_cmd)
       THEN replace_first(cmd, base_cmd, dict_get(aliases, base_cmd))
       ELSE cmd

\* The text print_full_commands shows for a row: the first alias, in the
\* dict's order, whose expansion the command starts with is named after it
annotated(cmd, aliases) ==
    LET hits == {i \in DOMAIN aliases : startswith(cmd, aliases[i][2])}
    IN IF hits = {} THEN cmd
       ELSE cmd \o <<" ", "(">>
                \o aliases[CHOOSE i \in hits : \A j \in hits : i <= j][1]
                \o <<")">>

\* print_full_commands: the rows displayed
print_full_commands(cmds, aliases) ==
    IF some_tokenless(cmds) THEN Raised("IndexError")
    ELSE LET command_counts ==
                 Counter([i \in DOMAIN cmds |-> expanded(cmds[i][1], aliases)])
             full_commands == first_n(sorted_desc(command_counts), TopRows)
         IN IF full_commands = <<>> THEN Raised("ValueError")
            ELSE IF \E i \in DOMAIN full_commands :
                        split(full_commands[i][1]) = <<>>
            THEN Raised("IndexError")
            ELSE Returned([i \in DOMAIN full_commands |->
                             <<annotated(full_commands[i][1], aliases),
                               full_commands[i][2]>>])

\* print_command_complexity: the rows displayed (each with every special
\* character occurrence of its command) and the maximum score
print_command_complexity(cmds) ==
    LET complex_commands == get_most_complex_commands(cmds, DefaultComplexN)
    IN IF complex_commands = <<>> THEN Raised("ValueError")
       ELSE Returned(
              [rows |-> [i \in DOMAIN complex_commands |->
                           <<complex_commands[i][1], complex_commands[i][2],
                             special_candidates(complex_commands[i][1])>>],
               max_complexity |->
                   max([i \in DOMAIN complex_commands |-> complex_commands[i][2]])])

\* dict.get(h, 0)
count_at(hour_counts, h) ==
    IF dict_has(hour_counts, h) THEN dict_get(hour_counts, h) ELSE 0

RECURSIVE sum_counts(_, _)
sum_counts(hour_counts, hours) ==
    IF hours = {} THEN 0
    ELSE LET h == CHOOSE x \in hours : TRUE
         IN count_at(hour_counts, h) + sum_counts(hour_counts, hours \ {h})

\* print_time_analysis: the 24 counts displayed, the hour the day starts,
\* the busiest hour and the late-night count
print_time_analysis(cmds) ==
    LET hour_counts == get_hourly_distribution(cmds)
        active == {hour_counts[i][1] : i \in DOMAIN hour_counts}
        daytime == {h \in active : 5 <= h /\ h < 24}
        least(S) == CHOOSE h \in S : \A g \in S : h <= g
        start_hour == IF daytime # {} THEN least(daytime)
                      ELSE IF active # {} THEN least(active) ELSE 0
        max_hour_count == max([i \in DOMAIN hour_counts |-> hour_counts[i][2]])
        \* max(hour_counts.items(), key=...): the first of the largest
        most_active == CHOOSE i \in DOMAIN hour_counts :
                          /\ hour_counts[i][2] = max_hour_count
                          /\ \A j \in 1..(i - 1) : hour_counts[j][2] < max_hour_count
    IN IF hour_counts = <<>> THEN Raised("ValueError")
       ELSE IF ~dict_has(hour_counts, start_hour) THEN Raised("KeyError")
       ELSE Returned([hours |-> [h \in 0..23 |-> count_at(hour_counts, h)],
                      start_hour |-> start_hour,
                      most_active_hour |-> hour_counts[most_active][1],
                      late_night_count |-> sum_counts(hour_counts, 0..4)])

\* The aliases a section lists: sorted(...)[:5] and list(unused)[:5]
AliasRows == 5

\* print_alias_analysis: the used aliases displayed with their counts, and
\* the neglected ones (no more than AliasRows aliases are ever defined here,
\* so list(unused)[:5] is all of them)
print_alias_analysis(cmds, aliases) ==
    IF aliases = <<>> THEN Returned([used |-> <<>>, neglected |-> {}])
    ELSE LET usage == analyze_alias_usage(aliases, cmds)
         IN IF usage.fault # "none" THEN usage
            ELSE Returned(
                   [used |-> first_n(sorted_desc(usage.value), AliasRows),
                    neglected |-> {aliases[i][1] : i \in DOMAIN aliases}
                                  \ {usage.value[i][1] : i \in DOMAIN usage.value}])

(***************************************************************************)
(* The aggregate views and the sections called on parsed entries           *)
(***************************************************************************)

\* Entries as parse_zsh_history leaves them (commands stripped): "ls" at
\* 00:00:07 and at 22:13:20, "ls -la" and "gs" at 22:13:20, and the empty
\* command of a line that ends at its ";"
EntryPool ==
    { <<(<<"l", "s">>), 7>>,
      <<(<<"l", "s">>), 1700000000>>,
      <<(<<"l", "s", " ", "-", "l", "a">>), 1700000000>>,
      <<(<<"g", "s">>), 1700000000>>,
      <<(<<>>), 7>> }

\* The alias dicts: none, or gs='git status' and ll='ls -la'
AliasPool ==
    { <<>>,
      << <<(<<"g", "s">>), (<<"g", "i", "t", " ", "s", "t", "a", "t", "u", "s">>)>>,
         <<(<<"l", "l">>), (<<"l", "s", " ", "-", "l", "a">>)>> >> }

MaxEntries == 4

\* The largest n a caller passes
MaxN == 3

InitAgg ==
    /\ a_commands \in SeqUpTo(EntryPool, MaxEntries)
    /\ a_aliases \in AliasPool
    /\ a_call = [name |-> "none", n |-> 0]
    /\ a_result = [fault |-> "none", value |-> <<>>]

\* One call on the entries; each function is pure, so one call per run
Call(name, n, result) ==
    /\ a_call.name = "none"
    /\ a_call' = [name |-> name, n |-> n]
    /\ a_result' = result
    /\ UNCHANGED <<a_commands, a_aliases>>

call_get_top_commands ==
    \E n \in 0..MaxN :
        Call("get_top_commands", n, Returned(get_top_commands(a_commands, n)))

call_get_top_full_commands ==
    \E n \in 0..MaxN :
        Call("get_top_full_commands", n,
             Returned(get_top_full_commands(a_commands, n)))

call_get_most_complex_commands ==
    \E n \in 0..MaxN :
        Call("get_most_complex_commands", n,
             Returned(get_most_complex_commands(a_commands, n)))

call_get_hourly_distribution ==
    Call("get_hourly_distribution", 0,
         Returned(get_hourly_distribution(a_commands)))

call_analyze_alias_usage ==
    Call("analyze_alias_usage", 0, analyze_alias_usage(a_aliases, a_commands))

call_print_base_commands ==
    Call("print_base_commands", 0, print_base_commands(a_commands, a_aliases))

call_print_full_commands ==
    Call("print_full_commands", 0, print_full_commands(a_commands, a_aliases))

call_print_command_complexity ==
    Call("print_command_complexity", 0, print_command_complexity(a_commands))

call_print_time_analysis ==
    Call("print_time_analysis", 0, print_time_analysis(a_commands))

call_print_alias_analysis ==
    Call("print_alias_analysis", 0, print_alias_analysis(a_commands, a_aliases))

NextAgg ==
    \/ call_get_top_commands /\ UNCHANGED <<parseVars, scoreVars, aliasVars, mainVars>>
    \/ call_get_top_full_commands /\ UNCHANGED <<parseVars, scoreVars, aliasVars, mainVars>>
    \/ call_get_most_complex_commands /\ UNCHANGED <<parseVars, scoreVars, aliasVars, mainVars>>
    \/ call_get_hourly_distribution /\ UNCHANGED <<parseVars, scoreVars, aliasVars, mainVars>>
    \/ call_analyze_alias_usage /\ UNCHANGED <<parseVars, scoreVars, aliasVars, mainVars>>
    \/ call_print_base_commands /\ UNCHANGED <<parseVars, scoreVars, aliasVars, mainVars>>
    \/ call_print_full_commands /\ UNCHANGED <<parseVars, scoreVars, aliasVars, mainVars>>
    \/ call_print_command_complexity /\ UNCHANGED <<parseVars, scoreVars, aliasVars, mainVars>>
    \/ call_print_time_analysis /\ UNCHANGED <<parseVars, scoreVars, aliasVars, mainVars>>
    \/ call_print_alias_analysis /\ UNCHANGED <<parseVars, scoreVars, aliasVars, mainVars>>

InitAggregate == InitAgg /\ ParseIdle /\ ScoreIdle /\ AliasIdle /\ MainIdle

SpecAgg == InitAggregate /\ [][NextAgg]_vars

(***************************************************************************)
(* Claims about the aggregate views and the sections, under SpecAgg        *)
(***************************************************************************)

\* C1 (as claimed): on an empty entry sequence every aggregate and every
\* section that consumes it completes, none raises.
C1_EmptyHistoryNeverRaises ==
    (a_commands = <<>> /\ a_call.name # "none") => a_result.fault = "none"

\* The number of entries whose timestamp falls in hour h
EntriesInHour(h) ==
    Cardinality({i \in DOMAIN a_commands : (a_commands[i][2] \div 3600) % 24 = h})

\* C2 (as claimed): the hourly distribution has exactly the keys 0..23, each
\* with the number of entries of that hour, 0 for an hour without entries.
C2_HourlyHasAll24Hours ==
    a_call.name = "get_hourly_distribution" =>
        LET d == a_result.value
        IN /\ {d[i][1] : i \in DOMAIN d} = 0..23
           /\ \A i \in DOMAIN d : d[i][2] = EntriesInHour(d[i][1])

\* The first whitespace-delimited token of a command, "" if it has none
FirstToken(cmd) ==
    LET solid == {i \in DOMAIN cmd : cmd[i] \notin Whitespace}
        from == CHOOSE i \in solid : \A j \in solid : i <= j
        blanks == {i \in from..Len(cmd) : cmd[i] \in Whitespace}
        to == IF blanks = {} THEN Len(cmd)
              ELSE (CHOOSE i \in blanks : \A j \in blanks : i <= j) - 1
    IN IF solid = {} THEN <<>> ELSE SubSeq(cmd, from, to)

\* The key a table counts an entry under
TableKey(name, entry) ==
    IF name = "get_top_commands" THEN FirstToken(entry[1]) ELSE entry[1]

\* The position in the entry sequence at which key k first occurs
FirstSeen(name, k) ==
    CHOOSE i \in DOMAIN a_commands :
        /\ TableKey(name, a_commands[i]) = k
        /\ \A j \in 1..(i - 1) : TableKey(name, a_commands[j]) # k

Tables == {"get_top_commands", "get_top_full_commands"}

\* C7: a table of topBaseCommands or topFullCommands has at most n pairs, is
\* in non-increasing order of count, and keys of equal count are in the order
\* in which each first occurs in the entry sequence.
C7_TablesOrderedFirstSeen ==
    a_call.name \in Tables =>
        LET t == a_result.value
        IN /\ Len(t) <= a_call.n
           /\ \A i, j \in DOMAIN t : i < j =>
                /\ t[i][2] >= t[j][2]
                /\ t[i][2] = t[j][2] =>
                     FirstSeen(a_call.name, t[i][1]) < FirstSeen(a_call.name, t[j][1])

\* C7 witness: "gs", "", "ls", "ls" gave ls 2, gs 1, "" 1 for n = 3.
C7_Witness ==
    /\ a_call = [name |-> "get_top_commands", n |-> 3]
    /\ Len(a_commands) = 4
    /\ a_result.value = << <<(<<"l", "s">>), 2>>, <<(<<"g", "s">>), 1>>,
                           <<(<<>>), 1>> >>

RECURSIVE SumCounts(_)
SumCounts(t) == IF t = <<>> THEN 0 ELSE t[1][2] + SumCounts(Tail(t))

DistinctKeys(name) == {TableKey(name, a_commands[i]) : i \in DOMAIN a_commands}

\* C8 (as claimed): the counts of a table of topBaseCommands or
\* topFullCommands sum to the total number of parsed entries.
C8_CountsSumToTotal ==
    (a_call.name \in Tables /\ a_call.n > 0) =>
        SumCounts(a_result.value) = Len(a_commands)

\* C8 (amended): the counts of a table sum to the total number of parsed
\* entries when n is at least the number of distinct keys, and to less than
\* the total otherwise (the table is cut to its n most frequent keys).
C8_CountsSumToTotalUnlessCut ==
    a_call.name \in Tables =>
        IF Cardinality(DistinctKeys(a_call.name)) <= a_call.n
        THEN SumCounts(a_result.value) = Len(a_commands)
        ELSE SumCounts(a_result.value) < Len(a_commands)

\* C8 witness: four entries under three distinct full commands, n = 3.
C8_Witness ==
    /\ a_call = [name |-> "get_top_full_commands", n |-> 3]
    /\ Len(a_commands) = 4
    /\ Len(a_result.value) = 3
    /\ SumCounts(a_result.value) = 4

\* The entries whose first token is (or is not) an alias name
EntriesByAlias(isAlias) ==
    SelectSeq(a_commands,
              LAMBDA e : (\E i \in DOMAIN a_aliases :
                             a_aliases[i][1] = FirstToken(e[1])) = isAlias)

\* C9 (as claimed): also with a tokenless command among the entries, the raw
\* command table without aliases is the base-command frequency table of the
\* entries whose first token is no alias name, aliasUsageCounts counts
\* exactly the entries whose first token is an alias name, and neither raises.
C9_TokenlessCommandsCounted ==
    /\ a_call.name = "print_base_commands" =>
        /\ a_result.fault = "none"
        /\ a_result.value = get_top_commands(EntriesByAlias(FALSE), TopRows)
    /\ a_call.name = "analyze_alias_usage" =>
        /\ a_result.fault = "none"
        /\ \A i \in DOMAIN a_aliases :
             LET uses == Cardinality({k \in DOMAIN a_commands :
                            FirstToken(a_commands[k][1]) = a_aliases[i][1]})
             IN IF uses = 0 THEN ~dict_has(a_result.value, a_aliases[i][1])
                ELSE /\ dict_has(a_result.value, a_aliases[i][1])
                     /\ dict_get(a_result.value, a_aliases[i][1]) = uses
        /\ \A i \in DOMAIN a_result.value :
             dict_has(a_aliases, a_result.value[i][1])

(***************************************************************************)
(* parse_aliases                                                           *)
(***************************************************************************)

\* aliases[k] = v: a key already there keeps its place and takes the value
dict_set(d, k, v) ==
    IF dict_has(d, k)
    THEN [i \in DOMAIN d |-> IF d[i][1] = k THEN <<k, v>> ELSE d[i]]
    ELSE Append(d, <<k, v>>)

ALIAS == <<"a", "l", "i", "a", "s">>

\* parts[0].replace("alias", "").strip()
alias_name(part) == strip(replace(part, ALIAS, <<>>))

\* parts[1].strip().strip("'\"")
alias_command(part) == strip_chars(strip(part), {"'", "\""})

\* The body of the for loop on one line: the dict afterwards
parse_alias_line(aliases, line) ==
    LET parts == split_sep(strip(line), <<"=">>, 1)
    IN IF startswith(strip(line), ALIAS) /\ Len(parts) = 2
       THEN dict_set(aliases, alias_name(parts[1]), alias_command(parts[2]))
       ELSE aliases

\* The lines a .zshrc is drawn from
AliasLinePool ==
    { \* alias gs='git status'
      <<"a", "l", "i", "a", "s", " ", "g", "s", "=", "'", "g", "i", "t", " ",
        "s", "t", "a", "t", "u", "s", "'", "\n">>,
      \* alias gs=gst
      <<"a", "l", "i", "a", "s", " ", "g", "s", "=", "g", "s", "t", "\n">>,
      \* alias myalias='ls'
      <<"a", "l", "i", "a", "s", " ", "m", "y", "a", "l", "i", "a", "s", "=",
        "'", "l", "s", "'", "\n">>,
      \* alias q="'a'"
      <<"a", "l", "i", "a", "s", " ", "q", "=", "\"", "'", "a", "'", "\"", "\n">>,
      \* "  alias ll = 'ls -la' ", blanks around the name and the value
      <<" ", " ", "a", "l", "i", "a", "s", " ", "l", "l", " ", "=", " ", "'",
        "l", "s", " ", "-", "l", "a", "'", " ", "\n">>,
      \* alias z, no "="
      <<"a", "l", "i", "a", "s", " ", "z", "\n">>,
      \* export A=1
      <<"e", "x", "p", "o", "r", "t", " ", "A", "=", "1", "\n">>,
      \* alias e='a=b', a "=" in the value
      <<"a", "l", "i", "a", "s", " ", "e", "=", "'", "a", "=", "b", "'", "\n">> }

MaxAliasLines == 2

\* parse_aliases(zshrc_path) is entered: aliases = {}
InitAlias ==
    /\ z_exists \in BOOLEAN
    /\ z_lines \in (IF z_exists THEN SeqUpTo(AliasLinePool, MaxAliasLines)
                    ELSE {<<>>})
    /\ z_pos = 1
    /\ z_aliases = <<>>
    /\ z_status = "reading"

\* open() raises FileNotFoundError: return {}
parse_aliases_not_found ==
    /\ z_status = "reading"
    /\ ~z_exists
    /\ z_aliases' = <<>>
    /\ z_status' = "returned"
    /\ UNCHANGED <<z_exists, z_lines, z_pos>>

\* One pass of "for line in f"
parse_aliases_line ==
    /\ z_status = "reading"
    /\ z_exists
    /\ z_pos <= Len(z_lines)
    /\ z_aliases' = parse_alias_line(z_aliases, z_lines[z_pos])
    /\ z_pos' = z_pos + 1
    /\ UNCHANGED <<z_exists, z_lines, z_status>>

\* The file is exhausted: return aliases
parse_aliases_return ==
    /\ z_status = "reading"
    /\ z_exists
    /\ z_pos > Len(z_lines)
    /\ z_status' = "returned"
    /\ UNCHANGED <<z_exists, z_lines, z_pos, z_aliases>>

NextAlias ==
    \/ parse_aliases_not_found /\ UNCHANGED <<parseVars, scoreVars, aggVars, mainVars>>
    \/ parse_aliases_line /\ UNCHANGED <<parseVars, scoreVars, aggVars, mainVars>>
    \/ parse_aliases_return /\ UNCHANGED <<parseVars, scoreVars, aggVars, mainVars>>

InitAliasTable == InitAlias /\ ParseIdle /\ ScoreIdle /\ AggIdle /\ MainIdle

SpecAlias == InitAliasTable /\ [][NextAlias]_vars

(***************************************************************************)
(* Claims about parse_aliases, under SpecAlias                             *)
(***************************************************************************)

\* A definition line "alias <name>=<value>": the alias token, a blank, and
\* an "=" further on
DefinitionLine(line) ==
    LET t == Trimmed(line)
    IN /\ Len(t) > 6
       /\ SubSeq(t, 1, 5) = ALIAS
       /\ t[6] = " "
       /\ FirstAt(t, "=", 7) # 0

\* <name>: the text between the leading alias token and the first "=",
\* trimmed, otherwise unchanged
DefinedName(line) ==
    LET t == Trimmed(line)
    IN Trimmed(SubSeq(t, 6, FirstAt(t, "=", 7) - 1))

\* v without one layer of enclosing quote characters: at most one at each end
Unquoted(v) ==
    LET quotes == {"'", "\""}
        a == IF v # <<>> /\ v[1] \in quotes THEN 2 ELSE 1
        b == IF Len(v) >= a /\ v[Len(v)] \in quotes THEN Len(v) - 1 ELSE Len(v)
    IN SubSeq(v, a, b)

\* <value> trimmed, one layer of enclosing quotes removed
DefinedValue(line) ==
    LET t == Trimmed(line)
    IN Unquoted(Trimmed(SubSeq(t, FirstAt(t, "=", 7) + 1, Len(t))))

\* C10 (as claimed): parse_aliases maps the <name> of every definition line,
\* unchanged but for trimming, to the <value> of the last definition of that
\* name, trimmed and with exactly one layer of enclosing quotes removed.
C10_AliasMapAsDefined ==
    z_status = "returned" =>
        \A k \in DOMAIN z_lines : DefinitionLine(z_lines[k]) =>
            LET name == DefinedName(z_lines[k])
                same == {j \in DOMAIN z_lines :
                            /\ DefinitionLine(z_lines[j])
                            /\ DefinedName(z_lines[j]) = name}
                last == CHOOSE j \in same : \A i \in same : i <= j
            IN /\ dict_has(z_aliases, name)
               /\ dict_get(z_aliases, name) = DefinedValue(z_lines[last])

(***************************************************************************)
(* main and generate_wrapped_report                                        *)
(***************************************************************************)

\* get_command_count_comment: which of the seven comments is returned
get_command_count_comment(total_commands) ==
    IF total_commands < 20 THEN 1
    ELSE IF total_commands < 100 THEN 2
    ELSE IF total_commands < 500 THEN 3
    ELSE IF total_commands < 1000 THEN 4
    ELSE IF total_commands < 5000 THEN 5
    ELSE IF total_commands < 15000 THEN 6
    ELSE 7

\* print_terminal_rhythm: the two counts and the comment displayed
print_terminal_rhythm(total, unique) ==
    Returned([total_commands |-> total, unique_commands |-> unique,
              comment |-> get_command_count_comment(total)])

\* len(commands)
total_commands == Len(commands)

\* len(set(cmd for cmd, _ in commands))
unique_commands == Cardinality({commands[i][1] : i \in DOMAIN commands})

\* len(sections)
SectionCount == 6

\* sections[k][1](): a list index from -len to len - 1 selects a section
\* (a negative one counts from the end), any other raises IndexError
call_section(k) ==
    IF k >= SectionCount \/ k < 0 - SectionCount THEN Raised("IndexError")
    ELSE LET i == k % SectionCount
         IN CASE i = 0 -> print_terminal_rhythm(total_commands, unique_commands)
              [] i = 1 -> print_base_commands(commands, z_aliases)
              [] i = 2 -> print_full_commands(commands, z_aliases)
              [] i = 3 -> print_command_complexity(commands)
              [] i = 4 -> print_time_analysis(commands)
              [] OTHER -> print_alias_analysis(commands, z_aliases)

\* str.lower() of one character
lower_char(c) ==
    CASE c = "N" -> "n"
      [] c = "P" -> "p"
      [] c = "Q" -> "q"
      [] OTHER -> c

\* str.lower()
lower(s) == [i \in DOMAIN s |-> lower_char(s[i])]

\* max(0, min(current_section, len(sections)))
clamp(k) ==
    LET low == IF k < SectionCount THEN k ELSE SectionCount
    IN IF low > 0 THEN low ELSE 0

\* What the user types at a prompt: n, N, p, q, a bare Enter, "n " and "x"
InputPool ==
    { <<"n">>, <<"N">>, <<"p">>, <<"q">>, <<>>, <<"n", " ">>, <<"x">> }

\* $SHELL's last component: the two shells known, another one, and unset
ShellPool == {"zsh", "bash", "fish", ""}

\* The lines the history file of a run is drawn from
HistoryPool ==
    { \* ": 1700000000:0;ls"
      <<":", " ", "1", "7", "0", "0", "0", "0", "0", "0", "0", "0", ":", "0",
        ";", "l", "s", "\n">>,
      \* ": 1700000000:0;gs", an alias of the .zshrc below
      <<":", " ", "1", "7", "0", "0", "0", "0", "0", "0", "0", "0", ":", "0",
        ";", "g", "s", "\n">>,
      \* ": 7:0;", nothing after the ";"
      <<":", " ", "7", ":", "0", ";", "\n">>,
      \* ": 9223372036854775808:0;ls", a timestamp past time_t
      <<":", " ", "9", "2", "2", "3", "3", "7", "2", "0", "3", "6", "8", "5",
        "4", "7", "7", "5", "8", "0", "8", ":", "0", ";", "l", "s", "\n">> }

\* The lines the .zshrc of a run is drawn from
ZshrcPool ==
    { \* alias gs='git status'
      <<"a", "l", "i", "a", "s", " ", "g", "s", "=", "'", "g", "i", "t", " ",
        "s", "t", "a", "t", "u", "s", "'", "\n">>,
      \* export A=1
      <<"e", "x", "p", "o", "r", "t", " ", "A", "=", "1", "\n">> }

MaxHistoryLines == 2

MaxZshrcLines == 1

\* main is entered: the environment and the two files are as the user has
\* them, nothing was read or printed yet
InitMain ==
    /\ m_shell \in ShellPool
    /\ m_has_history \in BOOLEAN
    /\ lines \in (IF m_has_history THEN SeqUpTo(HistoryPool, MaxHistoryLines)
                  ELSE {<<>>})
    /\ f_pos = 1
    /\ commands = <<>>
    /\ src = <<>>
    /\ pstatus = "idle"
    /\ perr = "none"
    /\ z_exists \in BOOLEAN
    /\ z_lines \in (IF z_exists THEN SeqUpTo(ZshrcPool, MaxZshrcLines)
                    ELSE {<<>>})
    /\ z_pos = 1
    /\ z_aliases = <<>>
    /\ z_status = "idle"
    /\ m_pc = "main"
    /\ current_section = 0
    /\ m_command = "none"
    /\ m_before = -1
    /\ m_screen = <<>>
    /\ m_rendered = {}
    /\ m_errors = <<>>

\* except Exception as e: print(f"Error: {e}"), after what is on the screen
main_except(e, screen) ==
    /\ m_errors' = Append(m_errors, e)
    /\ m_screen' = Append(screen, "error")
    /\ m_pc' = "error"

\* get_history_file() raises ValueError("Unsupported shell: ...")
main_unsupported_shell ==
    /\ m_pc = "main"
    /\ m_shell \notin {"zsh", "bash"}
    /\ main_except("ValueError", m_screen)
    /\ UNCHANGED <<m_shell, m_has_history, current_section, m_command,
                   m_before, m_rendered>>
    /\ UNCHANGED <<parseVars, aliasVars>>

\* parse_zsh_history(history_file): open() raises FileNotFoundError, which
\* the function's except clause does not name
main_history_not_found ==
    /\ m_pc = "main"
    /\ m_shell \in {"zsh", "bash"}
    /\ ~m_has_history
    /\ main_except("FileNotFoundError", m_screen)
    /\ UNCHANGED <<m_shell, m_has_history, current_section, m_command,
                   m_before, m_rendered>>
    /\ UNCHANGED <<parseVars, aliasVars>>

\* commands = parse_zsh_history(history_file): the file is opened
main_call_parse_zsh_history ==
    /\ m_pc = "main"
    /\ m_shell \in {"zsh", "bash"}
    /\ m_has_history
    /\ pstatus' = "reading"
    /\ m_pc' = "parse_zsh_history"
    /\ UNCHANGED <<lines, f_pos, commands, src, perr>>
    /\ UNCHANGED <<m_shell, m_has_history, current_section, m_command,
                   m_before, m_screen, m_rendered, m_errors>>
    /\ UNCHANGED aliasVars

\* parse_zsh_history raised (OverflowError or OSError of fromtimestamp)
main_parse_raised ==
    /\ m_pc = "parse_zsh_history"
    /\ pstatus = "raised"
    /\ main_except(perr, m_screen)
    /\ UNCHANGED <<m_shell, m_has_history, current_section, m_command,
                   m_before, m_rendered>>
    /\ UNCHANGED <<parseVars, aliasVars>>

\* aliases = parse_aliases(zshrc_path)
main_call_parse_aliases ==
    /\ m_pc = "parse_zsh_history"
    /\ pstatus = "returned"
    /\ z_status' = "reading"
    /\ m_pc' = "parse_aliases"
    /\ UNCHANGED <<z_exists, z_lines, z_pos, z_aliases>>
    /\ UNCHANGED <<m_shell, m_has_history, current_section, m_command,
                   m_before, m_screen, m_rendered, m_errors>>
    /\ UNCHANGED parseVars

\* generate_wrapped_report(...) up to the loop: current_section = 0 and
\* print_welcome(), which clears the screen first
main_call_generate_wrapped_report ==
    /\ m_pc = "parse_aliases"
    /\ z_status = "returned"
    /\ current_section' = 0
    /\ m_screen' = <<"header", "welcome">>
    /\ m_pc' = "render"
    /\ UNCHANGED <<m_shell, m_has_history, m_command, m_before, m_rendered,
                   m_errors>>
    /\ UNCHANGED <<parseVars, aliasVars>>

\* The top of the loop body: clear_screen(), the header, the section and the
\* prompt. Every section prints its title before it computes anything, so
\* one that raises leaves a part of itself on the screen, and the exception
\* reaches the except clause of main.
render_section ==
    /\ m_pc = "render"
    /\ m_rendered' = m_rendered \cup {current_section}
    /\ LET r == call_section(current_section)
       IN IF r.fault # "none"
          THEN main_except(r.fault, <<"header", "partial">>)
          ELSE /\ m_screen' = <<"header", "section", "prompt">>
               /\ m_pc' = "input"
               /\ UNCHANGED m_errors
    /\ UNCHANGED <<m_shell, m_has_history, current_section, m_command,
                   m_before>>
    /\ UNCHANGED <<parseVars, aliasVars>>

\* command = input().lower() and the rest of the loop body
read_input ==
    /\ m_pc = "input"
    /\ \E typed \in InputPool :
         LET command == lower(typed)
             moved == IF command = <<"n">> THEN current_section + 1
                      ELSE IF command = <<"p">> THEN current_section - 1
                      ELSE current_section
         IN /\ m_command' = command
            /\ m_before' = current_section
            /\ IF command = <<"q">>
               THEN /\ m_pc' = "quit"
                    /\ UNCHANGED <<current_section, m_screen>>
               ELSE /\ current_section' = clamp(moved)
                    /\ IF clamp(moved) = SectionCount
                       THEN /\ m_screen' = <<"summary">>
                            /\ m_pc' = "summary"
                       ELSE /\ m_pc' = "render"
                            /\ UNCHANGED m_screen
    /\ UNCHANGED <<m_shell, m_has_history, m_rendered, m_errors>>
    /\ UNCHANGED <<parseVars, aliasVars>>

\* input() at the end of its stream raises EOFError
read_input_eof ==
    /\ m_pc = "input"
    /\ main_except("EOFError", m_screen)
    /\ UNCHANGED <<m_shell, m_has_history, current_section, m_command,
                   m_before, m_rendered>>
    /\ UNCHANGED <<parseVars, aliasVars>>

NextMain ==
    \/ main_unsupported_shell /\ UNCHANGED <<scoreVars, aggVars>>
    \/ main_history_not_found /\ UNCHANGED <<scoreVars, aggVars>>
    \/ main_call_parse_zsh_history /\ UNCHANGED <<scoreVars, aggVars>>
    \/ parse_zsh_history_line /\ UNCHANGED <<scoreVars, aggVars, aliasVars, mainVars>>
    \/ parse_zsh_history_return /\ UNCHANGED <<scoreVars, aggVars, aliasVars, mainVars>>
    \/ main_parse_raised /\ UNCHANGED <<scoreVars, aggVars>>
    \/ main_call_parse_aliases /\ UNCHANGED <<scoreVars, aggVars>>
    \/ parse_aliases_not_found /\ UNCHANGED <<parseVars, scoreVars, aggVars, mainVars>>
    \/ parse_aliases_line /\ UNCHANGED <<parseVars, scoreVars, aggVars, mainVars>>
    \/ parse_aliases_return /\ UNCHANGED <<parseVars, scoreVars, aggVars, mainVars>>
    \/ main_call_generate_wrapped_report /\ UNCHANGED <<scoreVars, aggVars>>
    \/ render_section /\ UNCHANGED <<scoreVars, aggVars>>
    \/ read_input /\ UNCHANGED <<scoreVars, aggVars>>
    \/ read_input_eof /\ UNCHANGED <<scoreVars, aggVars>>

InitMainRun == InitMain /\ ScoreIdle /\ AggIdle

SpecMain == InitMainRun /\ [][NextMain]_vars

(***************************************************************************)
(* What is claimed of main                                                 *)
(***************************************************************************)

\* A section, whole or in part, is on the screen
SectionOnScreen ==
    \E i \in DOMAIN m_screen : m_screen[i] \in {"section", "partial"}

\* C11 (as claimed): in every run of main, when an error message is shown no
\* section was rendered before it, no section or part of one is on the
\* screen above it, and it is the only error message of the run.
C11_ErrorOnlyBeforeAnySection ==
    m_errors # <<>> =>
        /\ m_rendered = {}
        /\ ~SectionOnScreen
        /\ Len(m_errors) = 1

\* The loop of generate_wrapped_report was entered and has been left: by the
\* break of "q", by the break after the summary, or by an exception
LoopLeft == m_rendered # {} /\ m_pc \in {"quit", "summary", "error"}

\* The input stream ended at a prompt: no input was entered
InputEnded == m_pc = "error" /\ m_errors = <<"EOFError">>

\* An input was read, and it was none of n, p, q
Unrecognized ==
    m_before >= 0 /\ m_command \notin {<<"n">>, <<"p">>, <<"q">>}

\* C12 (as claimed): in the loop of generate_wrapped_report, after any inputs,
\* the index is within 0..sectionCount; sections are rendered only with an
\* index in 0..sectionCount-1; "p" at index 0 leaves the index 0; an input
\* other than n, p, q leaves the index as it was; and the loop is left exactly
\* when "q" was entered or the index reached sectionCount, the summary alone
\* being on the screen in the latter case.
C12_PagerStateMachine ==
    /\ current_section \in 0..SectionCount
    /\ m_rendered \subseteq 0..(SectionCount - 1)
    /\ (m_before = 0 /\ m_command = <<"p">>) => current_section = 0
    /\ Unrecognized => current_section = m_before
    /\ (LoopLeft /\ ~InputEnded) =>
          /\ m_before >= 0
          /\ m_command = <<"q">> \/ current_section = SectionCount
    /\ (m_before >= 0 /\ (m_command = <<"q">> \/ current_section = SectionCount))
          => LoopLeft
    /\ current_section = SectionCount <=> m_screen = <<"summary">>

====
